---- MODULE Spec2Model ----
(***************************************************************************)
(* The File API quickstart (quickstarts/file-api/sample.js): read a local  *)
(* file, upload it to the remote file store, call the content-generation   *)
(* endpoint with a prompt and the uploaded file's reference, log the       *)
(* answer.  sample.js is exercised by the Jest suites and described        *)
(* statement by statement by the source-level suite in tests/README.md.    *)
(*                                                                         *)
(* JavaScript runs to completion between awaits, so there is one action    *)
(* per stretch of the run function between two awaits: the call of run up  *)
(* to the discovery call, the return of discovery up to the upload call,   *)
(* the return of the upload up to the generation call, and the return of   *)
(* the generation call up to the end.                                      *)
(*                                                                         *)
(* Spec is one call of run in a loaded module.  LoadSpec starts before the *)
(* module is loaded, SeqSpec and ConcSpec call run more than once, one     *)
(* call after the other or side by side, FairSpec adds the passing of time *)
(* and the return of every call.  NotebookSpec and MasterSpec are the two  *)
(* test runner scripts, tests/run_tests.sh and run_tests.sh.               *)
(***************************************************************************)
EXTENDS Integers, Sequences, FiniteSets, TLC

VARIABLES
    env,    \* process.env.GOOGLE_API_KEY after dotenv.config, Undefined if unset
    run,    \* the state of the invocation of run(filePath, fileDisplayName)
    clock,  \* the time that has passed while run awaited a call, in ticks
    invs,   \* the invocations of run of a process that calls it more than once
    load,   \* the loading of the sample module: what it found and what it did
    sh      \* the execution of a test runner script

vars == <<env, run, clock, invs, load, sh>>

-----------------------------------------------------------------------------
(* JavaScript values that are not strings of the domain *)

Undefined == "<undefined>"
False == "<false>"

(* String(v) as the + operator applies it to its right operand *)
JsString(v) ==
    IF v = Undefined THEN "undefined"
    ELSE IF v = False THEN "false"
    ELSE v

(* a + b on a string and any value; a line of text is the sequence of its pieces *)
Concat(a, b) == <<a, JsString(b)>>

-----------------------------------------------------------------------------
(* File paths: a path is the sequence of its pieces, "/" and "." being the  *)
(* separators.                                                              *)

Sep == "/"
Dot == "."

RECURSIVE LastIndexOf(_, _, _)
LastIndexOf(p, tok, i) ==
    IF i = 0 THEN 0
    ELSE IF p[i] = tok THEN i
    ELSE LastIndexOf(p, tok, i - 1)

(* path.basename: what follows the last separator *)
BaseName(p) == SubSeq(p, LastIndexOf(p, Sep, Len(p)) + 1, Len(p))

(* path.extname without its dot: what follows the last dot of the base    *)
(* name, "" when the base name has no dot or only a leading one           *)
ExtName(p) ==
    LET b == BaseName(p)
        d == LastIndexOf(b, Dot, Len(b))
    IN  IF d <= 1 \/ d = Len(b) THEN "" ELSE b[d + 1]

(* the extensions the suites name, with their media types *)
MimeTable ==
    [png  |-> "image/png",
     jpg  |-> "image/jpeg",
     gif  |-> "image/gif",
     webp |-> "image/webp",
     pdf  |-> "application/pdf",
     txt  |-> "text/plain"]

(* mime.lookup(path): the type of the extension, false when there is none *)
(* or the table does not hold it                                          *)
MimeLookup(p) ==
    IF ExtName(p) \in DOMAIN MimeTable THEN MimeTable[ExtName(p)] ELSE False

-----------------------------------------------------------------------------
(* What the environment can hand to the run *)

ApiKey == "test-api-key-12345"
EnvKeys == {Undefined, "", ApiKey}

PathPrefix == <<"sample_data", Sep, "gemini_logo">>
FilePaths ==
    {PathPrefix \o <<Dot, e>> : e \in DOMAIN MimeTable \cup {"xyz"}}
    \cup {PathPrefix, <<"a", Dot, "b", Sep, "filename-no-extension">>}

DisplayNames == {"Gemini logo", ""}

FileUris == {"https://generativelanguage.googleapis.com/v1beta/files/abc123", ""}
FileMimes == {"image/png", "image/jpeg"}

(* createFileResponse: data.file is a file object or is absent (the empty  *)
(* sequence); a file object may lack uri or mimeType                       *)
FileObjects ==
    [uri : FileUris \cup {Undefined}, mimeType : FileMimes \cup {Undefined}]
UploadResponses ==
    {[data |-> [file |-> <<f>>]] : f \in FileObjects} \cup {[data |-> [file |-> <<>>]]}

(* generateContentResponse.data: the empty object, or an object with a    *)
(* candidates list of at most MaxCandidates texts                         *)
MaxCandidates == 2
CandidateTexts == {"A vibrant description", "Response 2"}
GenData ==
    {[keys |-> <<>>, candidates |-> <<>>]}
    \cup {[keys |-> <<"candidates">>, candidates |-> c] :
             c \in UNION {[1..n -> CandidateTexts] : n \in 0..MaxCandidates}}
GenResponses == {[data |-> d] : d \in GenData}

NoError == "<none>"
ConfigError == "API key is required"
DiscoveryErrors == {"Network error"}
AuthErrors == {"Invalid API key"}
FsErrors == {"ENOENT: no such file or directory"}
UploadErrors == {"Network error", "File not found (404)", "Network timeout"}
GenerateErrors == {"Rate limit exceeded (429)", "Generation failed"}
TypeErrorNoFile == "TypeError: Cannot read properties of undefined (reading 'uri')"

-----------------------------------------------------------------------------
(* The pieces of sample.js *)

DiscoveryHost == "https://generativelanguage.googleapis.com/$discovery/rest?version=v1beta&key="

(* GENAI_DISCOVERY_URL, the template string over API_KEY *)
DiscoveryUrl(key) == Concat(DiscoveryHost, key)

(* faulty variant: only an unset variable is refused, an empty one passes *)
CredentialUndefinedOnly(key) == key = Undefined

(* step 1 of the workflow: the credential must be set and non-empty *)
CredentialMissing(key) == key = Undefined \/ key = ""

(* new google.auth.GoogleAuth().fromAPIKey(API_KEY) *)
FromAPIKey(key) == [apiKey |-> key]

(* faulty variant: the media object is built over the sample's own file, *)
(* not over the path the invocation was called with                     *)
MediaOfSample(filePath) ==
    [mimeType |-> "image/png", body |-> <<"sample_data", "/", "gemini_logo", ".", "png">>]

(* media = {mimeType: mime.lookup(filePath), body: fs.createReadStream(filePath)} *)
Media(filePath) == [mimeType |-> MimeLookup(filePath), body |-> filePath]

(* faulty variant: an empty display name is replaced by a default one *)
UploadBodyDefaulted(displayName) ==
    [file |-> [displayName |-> IF displayName = "" THEN "Untitled" ELSE displayName]]

(* body = {"file": {"displayName": fileDisplayName}} *)
UploadBody(displayName) == [file |-> [displayName |-> displayName]]

(* the argument of genaiService.media.upload *)
UploadRequest(media, auth, body) ==
    [media |-> media, auth |-> auth, requestBody |-> body]

(* console.log("Uploaded file: " + fileUri) *)
UploadedLine(fileUri) == Concat("Uploaded file: ", fileUri)

Prompt == "Describe the image with a creative description"
Model == "models/gemini-2.5-flash"

(* contents = {contents: [{parts: [{text: prompt}, {file_data: {...}}]}]}: *)
(* a part is a record tagged with its one key                              *)
TextPart(t) == [key |-> "text", text |-> t, file_uri |-> Undefined, mime_type |-> Undefined]
FilePart(u, m) == [key |-> "file_data", text |-> Undefined, file_uri |-> u, mime_type |-> m]
Contents(fileUri, mimeType) ==
    [contents |-> << [parts |-> << TextPart(Prompt), FilePart(fileUri, mimeType) >>] >>]

(* faulty variant: the generation is called with an auth of its own, *)
(* built without the key                                             *)
GenerateRequestOwnAuth(contents, auth) ==
    [model |-> Model, requestBody |-> contents, auth |-> [apiKey |-> Undefined]]

(* the argument of genaiService.models.generateContent *)
GenerateRequest(contents, auth) ==
    [model |-> Model, requestBody |-> contents, auth |-> auth]

(* JSON.stringify of a response payload *)
RECURSIVE StringifyCandidates(_)
StringifyCandidates(c) ==
    IF c = <<>> THEN <<>>
    ELSE <<"{\"content\":{\"parts\":[{\"text\":\"", Head(c), "\"}]}}">>
         \o (IF Len(c) > 1 THEN <<",">> ELSE <<>>)
         \o StringifyCandidates(Tail(c))
JSONStringify(d) ==
    IF d.keys = <<>> THEN <<"{", "}">>
    ELSE <<"{", "\"candidates\":[">> \o StringifyCandidates(d.candidates) \o <<"]", "}">>

(* faulty variant: only the text of the first candidate is printed *)
ResponseSummary(resp) ==
    IF resp.data.candidates = <<>> THEN <<>> ELSE <<resp.data.candidates[1]>>

(* console.log(JSON.stringify(generateContentResponse.data)) *)
ResponseLine(resp) == JSONStringify(resp.data)

(* faulty variant: the type inferred locally for the upload is reused *)
LocalMimeOf(file, media) == media.mimeType

(* faulty variant: the type inferred locally stands in for a missing one *)
FileMimeOrLocal(file, media) ==
    IF file.mimeType = Undefined THEN media.mimeType ELSE file.mimeType

(* file.mimeType of the uploaded file object, as the generation request takes it *)
FileMimeOf(file, media) == file.mimeType

(* faulty variant: a missing uri is replaced by an empty reference *)
FileUriOrDefault(file) == IF file.uri = Undefined THEN "" ELSE file.uri

(* faulty variant: the reference is built from a known file name instead *)
(* of being read from the answer                                         *)
FileUriConstructed(file) ==
    "https://generativelanguage.googleapis.com/v1beta/files/abc123"

(* fileUri = file.uri *)
FileUriOf(file) == file.uri

(* faulty variant: the caught error is replaced by a new one *)
RethrowWrapped(e) == "Error: request failed"

(* catch (err) { throw err; } *)
Rethrow(e) == e

-----------------------------------------------------------------------------
(* The run function, one operator per stretch between two awaits.  Each    *)
(* takes the state of the invocation and what the environment answered,    *)
(* and gives the state at the next await or at the end.                    *)
(*   pc       where the invocation stands                                  *)
(*   trace    the calls and log lines of the invocation, in order          *)
(*   raised   the error the failing statement raised, err the one the      *)
(*            caller of run receives                                       *)
(*   faults, uploadReplies, genReplies, stream, streamLog                  *)
(*            what the environment did: the errors it raised, the answers  *)
(*            it gave, the state of the read stream                        *)

IdleRun ==
    [pc |-> "idle", filePath |-> <<>>, displayName |-> "", key |-> Undefined,
     discoverCalls |-> <<>>, authCalls |-> <<>>, lookupCalls |-> <<>>,
     openCalls |-> <<>>, uploadCalls |-> <<>>, genCalls |-> <<>>,
     console |-> <<>>, trace |-> <<>>, raised |-> NoError, err |-> NoError,
     faults |-> <<>>, uploadReplies |-> <<>>, genReplies |-> <<>>,
     stream |-> "none", streamLog |-> <<>>]

(* faulty variant: the error is logged on its way out of run *)
FailLogged(s, raisedErr, thrown) ==
    [s EXCEPT !.pc = "failed", !.raised = raisedErr, !.err = thrown,
              !.console = Append(@, <<"Error: ", thrown>>)]

(* an error leaves run and reaches its caller *)
Fail(s, raisedErr, thrown) ==
    [s EXCEPT !.pc = "failed", !.raised = raisedErr, !.err = thrown]

(* run(filePath, fileDisplayName) up to await google.discoverAPI(...) *)
CallRun(s, key, filePath, displayName) ==
    LET t == [s EXCEPT !.filePath = filePath, !.displayName = displayName, !.key = key]
    IN  IF CredentialMissing(key)
        THEN Fail(t, ConfigError, ConfigError)
        ELSE [t EXCEPT !.pc = "awaitDiscover",
                       !.discoverCalls = Append(@, [url |-> DiscoveryUrl(key)]),
                       !.trace = Append(@, "discover")]

(* google.discoverAPI rejected: run is not yet in its try block *)
DiscoverFailed(s, e) == Fail(s, e, e)

(* from the return of discoverAPI up to await genaiService.media.upload(...): *)
(* the auth, the media object (MIME lookup, read stream), the request body,   *)
(* the upload call                                                            *)
AfterDiscover(s, authErr, fsErr) ==
    LET a == [s EXCEPT !.authCalls = Append(@, s.key), !.trace = Append(@, "auth")]
        l == [a EXCEPT !.lookupCalls = Append(@, s.filePath),
                       !.openCalls = Append(@, s.filePath),
                       !.trace = @ \o <<"lookup", "open">>]
        auth == FromAPIKey(s.key)
    IN  IF authErr # NoError THEN Fail(a, authErr, authErr)
        ELSE IF fsErr # NoError THEN Fail(l, fsErr, fsErr)
        ELSE [l EXCEPT !.pc = "awaitUpload",
                       !.uploadCalls =
                           Append(@, UploadRequest(Media(s.filePath), auth,
                                                   UploadBody(s.displayName))),
                       !.trace = Append(@, "upload")]

(* faulty variant: the rejection of the upload is swallowed and the       *)
(* generation is called without a reference                               *)
UploadSwallowed(s, e) ==
    [s EXCEPT !.pc = "awaitGenerate",
              !.genCalls = Append(@, GenerateRequest(Contents(Undefined, Undefined),
                                                     FromAPIKey(s.key))),
              !.trace = Append(@, "generate")]

(* faulty variant: the upload line is logged although the upload rejected *)
UploadFailedLogged(s, e) ==
    Fail([s EXCEPT !.console = Append(@, UploadedLine(Undefined)),
                   !.trace = Append(@, "log")], e, Rethrow(e))

(* await genaiService.media.upload(...) rejected: catch (err) { throw err; } *)
UploadFailed(s, e) == Fail(s, e, Rethrow(e))

(* faulty variant: an answer whose uri is empty is refused before the *)
(* generation request is built                                        *)
AfterUploadValidated(s, resp) ==
    LET file == resp.data.file
        media == s.uploadCalls[Len(s.uploadCalls)].media
    IN  IF file = <<>>
        THEN Fail(s, TypeErrorNoFile, Rethrow(TypeErrorNoFile))
        ELSE IF FileUriOf(file[1]) = ""
        THEN Fail(s, "Upload returned no uri", "Upload returned no uri")
        ELSE LET fileUri == FileUriOf(file[1])
                 contents == Contents(fileUri, FileMimeOf(file[1], media))
             IN  [s EXCEPT !.pc = "awaitGenerate",
                           !.console = Append(@, UploadedLine(fileUri)),
                           !.genCalls =
                               Append(@, GenerateRequest(contents, FromAPIKey(s.key))),
                           !.trace = @ \o <<"log", "generate">>]

(* faulty variant: the generation is called before the upload line is *)
(* logged                                                              *)
AfterUploadGenerateFirst(s, resp) ==
    LET file == resp.data.file
        media == s.uploadCalls[Len(s.uploadCalls)].media
    IN  IF file = <<>>
        THEN Fail(s, TypeErrorNoFile, Rethrow(TypeErrorNoFile))
        ELSE LET fileUri == FileUriOf(file[1])
                 contents == Contents(fileUri, FileMimeOf(file[1], media))
             IN  [s EXCEPT !.pc = "awaitGenerate",
                           !.console = Append(@, UploadedLine(fileUri)),
                           !.genCalls =
                               Append(@, GenerateRequest(contents, FromAPIKey(s.key))),
                           !.trace = @ \o <<"generate", "log">>]

(* from the return of the upload up to await genaiService.models            *)
(* .generateContent(...): file = createFileResponse.data.file, fileUri =    *)
(* file.uri (a TypeError when there is no file object), the log line, the   *)
(* contents, the generation call                                            *)
AfterUpload(s, resp) ==
    LET file == resp.data.file
        media == s.uploadCalls[Len(s.uploadCalls)].media
    IN  IF file = <<>>
        THEN Fail(s, TypeErrorNoFile, Rethrow(TypeErrorNoFile))
        ELSE LET fileUri == FileUriOf(file[1])
                 contents == Contents(fileUri, FileMimeOf(file[1], media))
             IN  [s EXCEPT !.pc = "awaitGenerate",
                           !.console = Append(@, UploadedLine(fileUri)),
                           !.genCalls =
                               Append(@, GenerateRequest(contents, FromAPIKey(s.key))),
                           !.trace = @ \o <<"log", "generate">>]

(* faulty variant: the rejection of the generation is logged, not thrown *)
GenerateSwallowed(s, e) ==
    [s EXCEPT !.pc = "done",
              !.console = Append(@, ResponseLine([data |-> [keys |-> <<>>, candidates |-> <<>>]])),
              !.trace = Append(@, "log")]

(* faulty variant: a rejected generation is tried once more *)
GenerateRetried(s, e) ==
    IF Len(s.genCalls) >= 2 THEN Fail(s, e, e)
    ELSE [s EXCEPT !.genCalls = Append(@, s.genCalls[Len(s.genCalls)]),
                   !.trace = Append(@, "generate")]

(* faulty variant: the failure of the generation takes the upload line back *)
GenerateFailedRetracting(s, e) ==
    Fail([s EXCEPT !.console = <<>>], e, Rethrow(e))

(* faulty variant: the uploaded file is deleted before the error is thrown *)
GenerateFailedCleanup(s, e) ==
    Fail([s EXCEPT !.trace = Append(@, "delete")], e, Rethrow(e))

(* await genaiService.models.generateContent(...) rejected *)
GenerateFailed(s, e) == Fail(s, e, Rethrow(e))

(* faulty variant: the answer is also written to a local file *)
AfterGenerateSaved(s, resp) ==
    [s EXCEPT !.pc = "done",
              !.console = Append(@, ResponseLine(resp)),
              !.trace = @ \o <<"log", "write">>]

(* from the return of generateContent to the end of run *)
AfterGenerate(s, resp) ==
    [s EXCEPT !.pc = "done",
              !.console = Append(@, ResponseLine(resp)),
              !.trace = Append(@, "log")]

-----------------------------------------------------------------------------
(* The environment of the run: the remote service and its transport, the   *)
(* file system.                                                            *)

(* the environment raised error e in the given phase *)
Fault(s, phase, e) == [s EXCEPT !.faults = Append(@, [phase |-> phase, error |-> e])]

(* fs.createReadStream gave a stream *)
Opened(s) == [s EXCEPT !.stream = "open", !.streamLog = Append(@, "open")]

(* The upload call has returned.  The stream was handed over as media.body *)
(* and run calls nothing on it: it is closed if the transport has read it  *)
(* to its end, and is left as it was otherwise.                            *)
Transported(s, drained) ==
    [s EXCEPT !.stream = IF drained THEN "closed" ELSE @,
              !.streamLog = Append(@, IF drained THEN "closed" ELSE s.stream)]

-----------------------------------------------------------------------------
(* The loading of the module, before run is called: dotenv.config, then    *)
(* the read of the key from the process environment.                       *)
(*   osKey       GOOGLE_API_KEY as the process was started with it         *)
(*   fileKey     GOOGLE_API_KEY as the .env file defines it                *)
(*   processEnv  process.env.GOOGLE_API_KEY                                *)
(*   apiKey      the module's API_KEY                                      *)
(* Undefined stands for a variable that is not defined.                    *)

OsKeys == {Undefined, ApiKey}
FileKeys == {Undefined, "", "test-key"}

Unloaded(osKey, fileKey) ==
    [pc |-> "unloaded", osKey |-> osKey, fileKey |-> fileKey, processEnv |-> osKey,
     apiKey |-> Undefined, dotenvCalls |-> <<>>, steps |-> <<>>]

(* dotenv.config({path: '.env'}): the variables of the file that the *)
(* process environment does not define are added to it               *)
DotenvConfig(l) ==
    [l EXCEPT !.dotenvCalls = Append(@, [path |-> ".env"]),
              !.processEnv = IF @ = Undefined THEN l.fileKey ELSE @,
              !.steps = Append(@, "config")]

(* API_KEY = process.env.GOOGLE_API_KEY *)
ReadApiKey(l) == [l EXCEPT !.apiKey = l.processEnv, !.steps = Append(@, "read")]

(* faulty variant: the key is read before the .env file is loaded *)
ModuleLoadKeyFirst(l) == [DotenvConfig(ReadApiKey(l)) EXCEPT !.pc = "loaded"]

(* the statements of the module above the definition of run *)
ModuleLoad(l) == [ReadApiKey(DotenvConfig(l)) EXCEPT !.pc = "loaded"]

(* filePath and fileDisplayName of the sample *)
SampleFilePath == <<"sample_data", Sep, "gemini_logo", Dot, "png">>
SampleDisplayName == "Gemini logo"

-----------------------------------------------------------------------------
(* The execution of a test runner script *)

(*   script   the script that is executed                                   *)
(*   pc       where its execution stands                                    *)
(*   dirs     the directories that exist under the working directory        *)
(*   overall  OVERALL_SUCCESS, empty while it is not assigned               *)
(*   ran      the commands that were run (test suites, installations), with *)
(*            the exit status of each                                       *)
(*   out      the lines echoed, without colour codes and marks              *)
(*   exit     the exit status of the script, empty while it runs            *)
NoShell ==
    [script |-> "none", pc |-> "idle", dirs |-> {}, overall |-> <<>>,
     ran |-> <<>>, out |-> <<>>, exit |-> <<>>]

Echo(s, line) == [s EXCEPT !.out = Append(@, line)]
Exit(s, status) == [s EXCEPT !.pc = "exited", !.exit = <<status>>]

(* tests/run_tests.sh, the runner of the notebook validation suites *)
NotebookRunner == "tests/run_tests.sh"
NotebookSuites ==
    << [heading |-> "1. API Migration Tests",
        file |-> "test_notebook_api_migration", name |-> "API Migration Tests"],
       [heading |-> "2. Content Quality Tests",
        file |-> "test_notebook_content_quality", name |-> "Content Quality Tests"],
       [heading |-> "3. Integration Tests",
        file |-> "test_notebook_integration", name |-> "Integration Tests"] >>

(* exit statuses of python3 -m unittest: all tests passed, a test failed, *)
(* no test was run, python3 was not found                                 *)
UnittestStatuses == {0, 1, 5, 127}

(* the top of the script: the banner, OVERALL_SUCCESS=0 *)
NotebookBanner(s) ==
    [Echo(s, "Running Notebook Validation Tests") EXCEPT !.pc = "suites", !.overall = <<0>>]

(* run_test_suite test_file test_name, python3 -m unittest having ended *)
(* with the given status: its return value and what it echoed           *)
RunTestSuite(s, suite, status) ==
    LET r == [Echo(s, <<"Running ", suite.name, "...">>) EXCEPT
                  !.ran = Append(@, [suite |-> suite.file, status |-> status])]
    IN  IF status = 0
        THEN [result |-> 0, sh |-> Echo(r, <<suite.name, " PASSED">>)]
        ELSE [result |-> 1, sh |-> Echo(r, <<suite.name, " FAILED">>)]

(* faulty variant: run_test_suite is called as a plain command, so that *)
(* set -e ends the script when it returns 1                             *)
SuiteStepErrExit(s, n, status) ==
    LET r == RunTestSuite(Echo(s, NotebookSuites[n].heading), NotebookSuites[n], status)
    IN  IF r.result # 0 THEN Exit(r.sh, 1)
        ELSE [r.sh EXCEPT !.pc = IF n = Len(NotebookSuites) THEN "summary" ELSE @]

(* if ! run_test_suite ...; then OVERALL_SUCCESS=1; fi, for the n-th suite *)
SuiteStep(s, n, status) ==
    LET r == RunTestSuite(Echo(s, NotebookSuites[n].heading), NotebookSuites[n], status)
    IN  [r.sh EXCEPT !.overall = IF r.result # 0 THEN <<1>> ELSE @,
                     !.pc = IF n = Len(NotebookSuites) THEN "summary" ELSE @]

(* the summary: if [ $OVERALL_SUCCESS -eq 0 ] ... exit 0, else ... exit 1 *)
NotebookSummary(s) ==
    IF s.overall = <<0>>
    THEN Exit(Echo(s, "All tests PASSED"), 0)
    ELSE Exit(Echo(s, "Some tests FAILED"), 1)

(* run_tests.sh, the runner of the Python and the JavaScript suites *)
MasterRunner == "run_tests.sh"
TestsDir == "tests"
JsTestsDir == "quickstarts/file-api/__tests__"

(* exit statuses of the commands the script runs: 0 for success, 127 for *)
(* a command that was not found; pytest: 1 tests failed, 2 interrupted,  *)
(* 5 no test collected                                                   *)
PipStatuses == {0, 1, 127}
PytestStatuses == {0, 1, 2, 5, 127}
NpmInstallStatuses == {0, 1, 127}
NpmTestStatuses == {0, 1, 127}

Ran(s, command, status) ==
    [s EXCEPT !.ran = Append(@, [suite |-> command, status |-> status])]

(* the banner *)
MasterBanner(s) == [Echo(s, "  Gemini Cookbook Test Suite Runner  ") EXCEPT !.pc = "python"]

(* if [ -d "tests" ], up to pip install ... || echo ... *)
PythonBlock(s, status) ==
    IF TestsDir \notin s.dirs THEN [s EXCEPT !.pc = "javascript"]
    ELSE LET r == Ran(Echo(s, "Running Python/Notebook Tests..."), "pip install", status)
         IN  [(IF status # 0 THEN Echo(r, "  Dependencies already installed") ELSE r)
                  EXCEPT !.pc = "pytest"]

(* faulty variant: a failing pytest does not end the script *)
PytestDoneGoingOn(s, status) ==
    [Echo(Ran(s, "pytest", status), "Python tests passed") EXCEPT !.pc = "javascript"]

(* pytest tests/ -v --tb=short || exit 1, then the echo and the end of the if *)
PytestDone(s, status) ==
    LET r == Ran(s, "pytest", status)
    IN  IF status # 0 THEN Exit(r, 1)
        ELSE [Echo(r, "Python tests passed") EXCEPT !.pc = "javascript"]

(* if [ -d "quickstarts/file-api/__tests__" ], up to npm install ... || true *)
JavaScriptBlock(s, status) ==
    IF JsTestsDir \notin s.dirs THEN [s EXCEPT !.pc = "summary"]
    ELSE [Ran(Echo(s, "Running JavaScript Tests..."), "npm install", status)
              EXCEPT !.pc = "npm test"]

(* npm test || exit 1, then the echo, cd ../.. and the end of the if *)
NpmTestDone(s, status) ==
    LET r == Ran(s, "npm test", status)
    IN  IF status # 0 THEN Exit(r, 1)
        ELSE [Echo(r, "JavaScript tests passed") EXCEPT !.pc = "summary"]

(* faulty variant: success is reported only when a suite was run *)
MasterSummaryOfSuites(s) ==
    IF s.ran = <<>> THEN Exit(Echo(s, "No tests found"), 1)
    ELSE Exit(Echo(s, "All tests passed successfully!"), 0)

(* the last lines: the script ends with the status of its last echo *)
MasterSummary(s) == Exit(Echo(s, "All tests passed successfully!"), 0)

-----------------------------------------------------------------------------
(* The process: the module is loaded (dotenv.config, API_KEY read from the *)
(* environment), then run is called and the environment answers its calls. *)

Init ==
    /\ env \in EnvKeys
    /\ run = IdleRun
    /\ clock = 0
    /\ invs = <<>>
    /\ load = ModuleLoad(Unloaded(env, Undefined))
    /\ sh = NoShell

Start ==
    /\ run.pc = "idle"
    /\ \E filePath \in FilePaths, displayName \in DisplayNames :
           run' = CallRun(run, env, filePath, displayName)
    /\ UNCHANGED <<env, clock, invs, load, sh>>

(* faulty variant: a missing file does not make createReadStream throw, *)
(* its stream is handed to the upload                                    *)
DiscoverResolveLateOpen ==
    /\ run.pc = "awaitDiscover"
    /\ \/ \E e \in AuthErrors : run' = AfterDiscover(Fault(run, "auth", e), e, NoError)
       \/ \E e \in FsErrors :
              run' = AfterDiscover(Fault(Opened(run), "open", e), NoError, NoError)
       \/ run' = AfterDiscover(Opened(run), NoError, NoError)
    /\ UNCHANGED <<env, clock, invs, load, sh>>

DiscoverResolve ==
    /\ run.pc = "awaitDiscover"
    /\ \/ \E e \in AuthErrors : run' = AfterDiscover(Fault(run, "auth", e), e, NoError)
       \/ \E e \in FsErrors : run' = AfterDiscover(Fault(run, "open", e), NoError, e)
       \/ run' = AfterDiscover(Opened(run), NoError, NoError)
    /\ UNCHANGED <<env, clock, invs, load, sh>>

DiscoverReject ==
    /\ run.pc = "awaitDiscover"
    /\ \E e \in DiscoveryErrors : run' = DiscoverFailed(Fault(run, "discover", e), e)
    /\ UNCHANGED <<env, clock, invs, load, sh>>

UploadResolve ==
    /\ run.pc = "awaitUpload"
    /\ \E resp \in UploadResponses, drained \in BOOLEAN :
           run' = AfterUpload([Transported(run, drained) EXCEPT
                                   !.uploadReplies = Append(@, resp)], resp)
    /\ UNCHANGED <<env, clock, invs, load, sh>>

UploadReject ==
    /\ run.pc = "awaitUpload"
    /\ \E e \in UploadErrors, drained \in BOOLEAN :
           run' = UploadFailed(Fault(Transported(run, drained), "upload", e), e)
    /\ UNCHANGED <<env, clock, invs, load, sh>>

GenerateResolve ==
    /\ run.pc = "awaitGenerate"
    /\ \E resp \in GenResponses :
           run' = AfterGenerate([run EXCEPT !.genReplies = Append(@, resp)], resp)
    /\ UNCHANGED <<env, clock, invs, load, sh>>

GenerateReject ==
    /\ run.pc = "awaitGenerate"
    /\ \E e \in GenerateErrors : run' = GenerateFailed(Fault(run, "generate", e), e)
    /\ UNCHANGED <<env, clock, invs, load, sh>>

Next ==
    \/ Start
    \/ DiscoverResolve
    \/ DiscoverReject
    \/ UploadResolve
    \/ UploadReject
    \/ GenerateResolve
    \/ GenerateReject

Spec == Init /\ [][Next]_vars

-----------------------------------------------------------------------------
(* The run and the passing of time.  Every remote call that was issued     *)
(* returns in the end, with an answer or with an error; while it has not,  *)
(* time passes.                                                            *)

MaxTicks == 2

Awaiting(s) == s.pc \in {"awaitDiscover", "awaitUpload", "awaitGenerate"}

(* faulty variant: run gives up the call it awaits when time has passed *)
WaitingTimedOut(s) == Fail(s, "Network timeout", "Network timeout")

(* await: run holds no timer and cancels nothing, the passing of time *)
(* leaves it at the call it awaits                                    *)
Waiting(s) == s

Tick ==
    /\ Awaiting(run)
    /\ clock < MaxTicks
    /\ clock' = clock + 1
    /\ run' = Waiting(run)
    /\ UNCHANGED <<env, invs, load, sh>>

FairNext == Next \/ Tick

FairSpec ==
    /\ Init
    /\ [][FairNext]_vars
    /\ WF_vars(DiscoverResolve \/ DiscoverReject)
    /\ WF_vars(UploadResolve \/ UploadReject)
    /\ WF_vars(GenerateResolve \/ GenerateReject)

-----------------------------------------------------------------------------
(* node sample.js: the module is loaded from its first statement, with the *)
(* process environment and the .env file as they are; its last statement   *)
(* calls run with the sample's file.                                       *)

LoadInit ==
    /\ env = Undefined
    /\ run = IdleRun
    /\ clock = 0
    /\ invs = <<>>
    /\ load \in {Unloaded(o, f) : o \in OsKeys, f \in FileKeys}
    /\ sh = NoShell

LoadSample ==
    /\ load.pc = "unloaded"
    /\ LET l == ModuleLoad(load)
       IN  /\ load' = [l EXCEPT !.steps = Append(@, "run")]
           /\ env' = l.apiKey
           /\ run' = CallRun(run, l.apiKey, SampleFilePath, SampleDisplayName)
    /\ UNCHANGED <<clock, invs, sh>>

LoadNext ==
    \/ LoadSample
    \/ DiscoverResolve
    \/ DiscoverReject
    \/ UploadResolve
    \/ UploadReject
    \/ GenerateResolve
    \/ GenerateReject

LoadSpec == LoadInit /\ [][LoadNext]_vars

-----------------------------------------------------------------------------
(* tests/run_tests.sh is executed: the banner, the three suites, each      *)
(* ending with whatever status python3 gives, the summary.                 *)

NotebookInit ==
    /\ env = Undefined
    /\ run = IdleRun
    /\ clock = 0
    /\ invs = <<>>
    /\ load = Unloaded(Undefined, Undefined)
    /\ sh = [NoShell EXCEPT !.script = NotebookRunner]

NotebookStart ==
    /\ sh.script = NotebookRunner
    /\ sh.pc = "idle"
    /\ sh' = NotebookBanner(sh)
    /\ UNCHANGED <<env, run, clock, invs, load>>

ApiMigrationSuite ==
    /\ sh.script = NotebookRunner
    /\ sh.pc = "suites"
    /\ Len(sh.ran) = 0
    /\ \E status \in UnittestStatuses : sh' = SuiteStep(sh, 1, status)
    /\ UNCHANGED <<env, run, clock, invs, load>>

ContentQualitySuite ==
    /\ sh.script = NotebookRunner
    /\ sh.pc = "suites"
    /\ Len(sh.ran) = 1
    /\ \E status \in UnittestStatuses : sh' = SuiteStep(sh, 2, status)
    /\ UNCHANGED <<env, run, clock, invs, load>>

IntegrationSuite ==
    /\ sh.script = NotebookRunner
    /\ sh.pc = "suites"
    /\ Len(sh.ran) = 2
    /\ \E status \in UnittestStatuses : sh' = SuiteStep(sh, 3, status)
    /\ UNCHANGED <<env, run, clock, invs, load>>

NotebookEnd ==
    /\ sh.script = NotebookRunner
    /\ sh.pc = "summary"
    /\ sh' = NotebookSummary(sh)
    /\ UNCHANGED <<env, run, clock, invs, load>>

NotebookNext ==
    \/ NotebookStart
    \/ ApiMigrationSuite
    \/ ContentQualitySuite
    \/ IntegrationSuite
    \/ NotebookEnd

NotebookSpec == NotebookInit /\ [][NotebookNext]_vars

-----------------------------------------------------------------------------
(* run_tests.sh is executed in a working directory in which each of the    *)
(* two test directories exists or not.                                     *)

MasterInit ==
    /\ env = Undefined
    /\ run = IdleRun
    /\ clock = 0
    /\ invs = <<>>
    /\ load = Unloaded(Undefined, Undefined)
    /\ \E dirs \in SUBSET {TestsDir, JsTestsDir} :
           sh = [NoShell EXCEPT !.script = MasterRunner, !.dirs = dirs]

MasterStart ==
    /\ sh.script = MasterRunner
    /\ sh.pc = "idle"
    /\ sh' = MasterBanner(sh)
    /\ UNCHANGED <<env, run, clock, invs, load>>

PythonTests ==
    /\ sh.script = MasterRunner
    /\ sh.pc = "python"
    /\ \E status \in PipStatuses : sh' = PythonBlock(sh, status)
    /\ UNCHANGED <<env, run, clock, invs, load>>

Pytest ==
    /\ sh.script = MasterRunner
    /\ sh.pc = "pytest"
    /\ \E status \in PytestStatuses : sh' = PytestDone(sh, status)
    /\ UNCHANGED <<env, run, clock, invs, load>>

JavaScriptTests ==
    /\ sh.script = MasterRunner
    /\ sh.pc = "javascript"
    /\ \E status \in NpmInstallStatuses : sh' = JavaScriptBlock(sh, status)
    /\ UNCHANGED <<env, run, clock, invs, load>>

NpmTest ==
    /\ sh.script = MasterRunner
    /\ sh.pc = "npm test"
    /\ \E status \in NpmTestStatuses : sh' = NpmTestDone(sh, status)
    /\ UNCHANGED <<env, run, clock, invs, load>>

MasterEnd ==
    /\ sh.script = MasterRunner
    /\ sh.pc = "summary"
    /\ sh' = MasterSummary(sh)
    /\ UNCHANGED <<env, run, clock, invs, load>>

MasterNext ==
    \/ MasterStart
    \/ PythonTests
    \/ Pytest
    \/ JavaScriptTests
    \/ NpmTest
    \/ MasterEnd

MasterSpec == MasterInit /\ [][MasterNext]_vars

-----------------------------------------------------------------------------
(* A process that calls run more than once.  Every name run assigns is     *)
(* local to the call, so each invocation has a state of its own; API_KEY   *)
(* and the client library are the module's and are shared by all of them.  *)
(* invs holds the invocations in the order of their calls.                 *)

MaxInvocations == 2

PoolPaths == {PathPrefix \o <<Dot, "png">>, PathPrefix \o <<Dot, "jpg">>}
PoolFileObjects ==
    {[uri |-> "https://generativelanguage.googleapis.com/v1beta/files/abc123",
      mimeType |-> "image/png"],
     [uri |-> "https://generativelanguage.googleapis.com/v1/files/xyz789",
      mimeType |-> "image/jpeg"]}
PoolUploadResponses == {[data |-> [file |-> <<f>>]] : f \in PoolFileObjects}
PoolGenResponses ==
    {[data |-> [keys |-> <<"candidates">>, candidates |-> <<"A vibrant description">>]]}
PoolUploadErrors == {"Network error"}
PoolGenerateErrors == {"Generation failed"}

Ended(s) == s.pc \in {"done", "failed"}

(* run(filePath, fileDisplayName) is called once the invocation before it *)
(* has ended                                                              *)
CallAgain ==
    /\ Len(invs) < MaxInvocations
    /\ \A i \in 1..Len(invs) : Ended(invs[i])
    /\ \E filePath \in PoolPaths, displayName \in DisplayNames :
           invs' = Append(invs, CallRun(IdleRun, env, filePath, displayName))
    /\ UNCHANGED <<env, run, clock, load, sh>>

(* run(filePath, fileDisplayName) is called whatever the state of the     *)
(* invocations before it: they may still await their calls                *)
CallBeside ==
    /\ Len(invs) < MaxInvocations
    /\ \E filePath \in PoolPaths, displayName \in DisplayNames :
           invs' = Append(invs, CallRun(IdleRun, env, filePath, displayName))
    /\ UNCHANGED <<env, run, clock, load, sh>>

(* the environment answers the call invocation i awaits *)
PoolDiscoverResolve(i) ==
    /\ invs[i].pc = "awaitDiscover"
    /\ \/ \E e \in AuthErrors :
              invs' = [invs EXCEPT ![i] = AfterDiscover(Fault(@, "auth", e), e, NoError)]
       \/ \E e \in FsErrors :
              invs' = [invs EXCEPT ![i] = AfterDiscover(Fault(@, "open", e), NoError, e)]
       \/ invs' = [invs EXCEPT ![i] = AfterDiscover(Opened(@), NoError, NoError)]
    /\ UNCHANGED <<env, run, clock, load, sh>>

PoolDiscoverReject(i) ==
    /\ invs[i].pc = "awaitDiscover"
    /\ \E e \in DiscoveryErrors :
           invs' = [invs EXCEPT ![i] = DiscoverFailed(Fault(@, "discover", e), e)]
    /\ UNCHANGED <<env, run, clock, load, sh>>

PoolUploadResolve(i) ==
    /\ invs[i].pc = "awaitUpload"
    /\ \E resp \in PoolUploadResponses, drained \in BOOLEAN :
           invs' = [invs EXCEPT ![i] =
                        AfterUpload([Transported(@, drained) EXCEPT
                                         !.uploadReplies = Append(@, resp)], resp)]
    /\ UNCHANGED <<env, run, clock, load, sh>>

PoolUploadReject(i) ==
    /\ invs[i].pc = "awaitUpload"
    /\ \E e \in PoolUploadErrors, drained \in BOOLEAN :
           invs' = [invs EXCEPT ![i] =
                        UploadFailed(Fault(Transported(@, drained), "upload", e), e)]
    /\ UNCHANGED <<env, run, clock, load, sh>>

PoolGenerateResolve(i) ==
    /\ invs[i].pc = "awaitGenerate"
    /\ \E resp \in PoolGenResponses :
           invs' = [invs EXCEPT ![i] =
                        AfterGenerate([@ EXCEPT !.genReplies = Append(@, resp)], resp)]
    /\ UNCHANGED <<env, run, clock, load, sh>>

PoolGenerateReject(i) ==
    /\ invs[i].pc = "awaitGenerate"
    /\ \E e \in PoolGenerateErrors :
           invs' = [invs EXCEPT ![i] = GenerateFailed(Fault(@, "generate", e), e)]
    /\ UNCHANGED <<env, run, clock, load, sh>>

(* the invocations follow one another *)
SeqNext ==
    \/ CallAgain
    \/ \E i \in 1..Len(invs) : PoolDiscoverResolve(i)
    \/ \E i \in 1..Len(invs) : PoolDiscoverReject(i)
    \/ \E i \in 1..Len(invs) : PoolUploadResolve(i)
    \/ \E i \in 1..Len(invs) : PoolUploadReject(i)
    \/ \E i \in 1..Len(invs) : PoolGenerateResolve(i)
    \/ \E i \in 1..Len(invs) : PoolGenerateReject(i)

SeqSpec == Init /\ [][SeqNext]_vars

(* the invocations run side by side, their awaits interleaved *)
ConcNext ==
    \/ CallBeside
    \/ \E i \in 1..Len(invs) : PoolDiscoverResolve(i)
    \/ \E i \in 1..Len(invs) : PoolDiscoverReject(i)
    \/ \E i \in 1..Len(invs) : PoolUploadResolve(i)
    \/ \E i \in 1..Len(invs) : PoolUploadReject(i)
    \/ \E i \in 1..Len(invs) : PoolGenerateResolve(i)
    \/ \E i \in 1..Len(invs) : PoolGenerateReject(i)

ConcSpec == Init /\ [][ConcNext]_vars

-----------------------------------------------------------------------------
(* Properties of the workflow *)

Terminal == run.pc \in {"done", "failed"}
FaultsIn(phase) == {i \in 1..Len(run.faults) : run.faults[i].phase = phase}

(* C1: the generation call is issued only after the upload call of the run *)
(* has returned successfully, and once the upload call has rejected, with   *)
(* whatever error, the generation call is never invoked.                    *)
C1_GenerateOnlyAfterUpload ==
    /\ run.genCalls # <<>> => run.uploadCalls # <<>> /\ run.uploadReplies # <<>>
    /\ FaultsIn("upload") # {} => run.genCalls = <<>>

C1_Witness ==
    /\ run.pc = "failed"
    /\ FaultsIn("upload") # {}
    /\ run.uploadCalls # <<>>

(* C2: with the credential variable unset or empty the run fails with the  *)
(* configuration error before any network activity: neither discovery nor  *)
(* upload nor generation is ever invoked.                                  *)
C2_NoCredentialNoNetwork ==
    (env \in {Undefined, ""} /\ run.pc # "idle") =>
        /\ run.pc = "failed"
        /\ run.err = ConfigError
        /\ run.discoverCalls = <<>>
        /\ run.uploadCalls = <<>>
        /\ run.genCalls = <<>>

C2_Witness == env = "" /\ run.pc = "failed" /\ run.err = ConfigError

(* C3: after an upload answered {file: {uri: U, mimeType: M}} the run      *)
(* issues one generation request whose body has exactly one content item   *)
(* with the parts [{text: prompt}, {file_data: {file_uri: U, mime_type:    *)
(* M}}] in this order, U and M being the answer's values unaltered.        *)
C3_UploadRoundTrip ==
    \A i \in 1..Len(run.uploadReplies) :
        run.uploadReplies[i].data.file # <<>> =>
            LET f == run.uploadReplies[i].data.file[1]
            IN  /\ Len(run.genCalls) = Len(run.uploadReplies)
                /\ Len(run.genCalls[i].requestBody.contents) = 1
                /\ LET parts == run.genCalls[i].requestBody.contents[1].parts
                   IN  /\ Len(parts) = 2
                       /\ parts[1].key = "text"
                       /\ parts[1].text = "Describe the image with a creative description"
                       /\ parts[2].key = "file_data"
                       /\ parts[2].file_uri = f.uri
                       /\ parts[2].mime_type = f.mimeType

C3_Witness ==
    /\ run.genCalls # <<>>
    /\ run.uploadCalls[1].media.mimeType = "image/png"
    /\ run.uploadReplies[1].data.file # <<>>
    /\ run.uploadReplies[1].data.file[1].mimeType = "image/jpeg"
    /\ run.uploadReplies[1].data.file[1].uri \notin {Undefined, ""}

(* C4: on a successful end-to-end run the console holds exactly two lines, *)
(* in this order: "Uploaded file: " + uri with the uri of the upload's     *)
(* answer, then the JSON serialization of the generation answer's data.    *)
C4_TwoLogLines ==
    run.pc = "done" =>
        /\ Len(run.console) = 2
        /\ run.console[1] =
               <<"Uploaded file: ", JsString(run.uploadReplies[1].data.file[1].uri)>>
        /\ run.console[2] = JSONStringify(run.genReplies[1].data)

C4_Witness ==
    /\ run.pc = "done"
    /\ run.genReplies[1].data.candidates = <<"A vibrant description">>
    /\ run.uploadReplies[1].data.file[1].uri \notin {Undefined, ""}

(* C5: when the generation call rejects, the error reaches the caller of   *)
(* run and no response line is logged: the console holds the upload line   *)
(* only.                                                                   *)
C5_GenerateRejectPropagates ==
    \A i \in FaultsIn("generate") :
        /\ run.pc = "failed"
        /\ run.err = run.faults[i].error
        /\ Len(run.console) = 1
        /\ run.console[1][1] = "Uploaded file: "

C5_Witness ==
    /\ run.pc = "failed"
    /\ \E i \in FaultsIn("generate") : run.faults[i].error = "Rate limit exceeded (429)"

(* C6: the error that reaches the caller of run is the very error of the   *)
(* phase that failed first (client initialization, file opening, upload,   *)
(* generation), and a run in which an error was raised never ends in the   *)
(* successful terminal state.                                              *)
C6_ErrorUnmodified ==
    /\ run.faults # <<>> =>
           /\ run.pc = "failed"
           /\ run.err = run.faults[1].error
           /\ Len(run.faults) = 1
    /\ run.pc = "failed" => run.err = run.raised /\ run.err # NoError
    /\ run.pc = "done" => run.err = NoError /\ run.raised = NoError

C6_Witness ==
    /\ run.pc = "failed"
    /\ FaultsIn("upload") # {}
    /\ run.err = "File not found (404)"

(* C7: discovery, upload and generation are each called at most once in a  *)
(* run, also after a failure; on a successful run upload and generation    *)
(* are each called exactly once, and the generation is called with the     *)
(* model "models/gemini-2.5-flash" and no other.                           *)
C7_EachPhaseOnce ==
    /\ Len(run.discoverCalls) <= 1
    /\ Len(run.uploadCalls) <= 1
    /\ Len(run.genCalls) <= 1
    /\ \A i \in 1..Len(run.genCalls) : run.genCalls[i].model = "models/gemini-2.5-flash"
    /\ run.pc = "done" => Len(run.uploadCalls) = 1 /\ Len(run.genCalls) = 1

C7_Witness ==
    /\ run.pc = "failed"
    /\ FaultsIn("generate") # {}
    /\ Len(run.genCalls) = 1

(* C8: the read stream stays open for the whole upload call and is closed  *)
(* once the upload call has completed or failed: it is closed in every     *)
(* terminal state of a run that opened it.                                 *)
C8_StreamClosedOnEveryExit ==
    /\ run.pc = "awaitUpload" => run.stream = "open"
    /\ (Terminal /\ run.streamLog # <<>>) => run.stream = "closed"

(* C9 as stated: after an upload answer without a file object, or with a   *)
(* file object without uri, the generation call is still attempted, with   *)
(* the missing reference and no default, and a failure of the run is the   *)
(* one of the generation call.                                             *)
C9_MissingReferenceReachesGenerate ==
    \A i \in 1..Len(run.uploadReplies) :
        LET file == run.uploadReplies[i].data.file
        IN  (file = <<>> \/ file[1].uri = Undefined) =>
                /\ Len(run.genCalls) = 1
                /\ run.genCalls[1].requestBody.contents[1].parts[2].file_uri = Undefined
                /\ run.pc = "failed" => FaultsIn("generate") # {}

(* C9 amended: after an upload answer with a file object without uri the   *)
(* generation call is attempted with the missing reference, no default     *)
(* being substituted, and a failure of the run is the one of the           *)
(* generation call; after an answer without a file object the run fails    *)
(* with the TypeError of reading uri, before the upload line is logged and *)
(* without any generation call.                                            *)
C9_MissingReference ==
    \A i \in 1..Len(run.uploadReplies) :
        LET file == run.uploadReplies[i].data.file
        IN  /\ (file # <<>> /\ file[1].uri = Undefined) =>
                   /\ Len(run.genCalls) = 1
                   /\ run.genCalls[1].requestBody.contents[1].parts[2].file_uri = Undefined
                   /\ run.pc = "failed" =>
                          /\ FaultsIn("generate") # {}
                          /\ run.err = run.faults[1].error
            /\ file = <<>> =>
                   /\ run.pc = "failed"
                   /\ run.err = TypeErrorNoFile
                   /\ run.genCalls = <<>>
                   /\ run.console = <<>>

C9_Witness ==
    /\ run.pc = "failed"
    /\ run.uploadReplies # <<>>
    /\ run.uploadReplies[1].data.file # <<>>
    /\ run.uploadReplies[1].data.file[1].uri = Undefined
    /\ FaultsIn("generate") # {}

(* C10: the MIME type sent in the upload is the documented type of the     *)
(* path's extension (.png image/png, .jpg image/jpeg, .gif image/gif,      *)
(* .webp image/webp, .pdf application/pdf, .txt text/plain), and           *)
(* application/octet-stream when the extension is not one of these or is   *)
(* missing.                                                                *)
C10_MimeInference ==
    \A i \in 1..Len(run.uploadCalls) :
        LET ext == ExtName(run.uploadCalls[i].media.body)
        IN  run.uploadCalls[i].media.mimeType =
                CASE ext = "png"  -> "image/png"
                  [] ext = "jpg"  -> "image/jpeg"
                  [] ext = "gif"  -> "image/gif"
                  [] ext = "webp" -> "image/webp"
                  [] ext = "pdf"  -> "application/pdf"
                  [] ext = "txt"  -> "text/plain"
                  [] OTHER        -> "application/octet-stream"

(* the uri of the file object of an upload answer *)
UriOfReply(resp) == resp.data.file[1].uri

(* the file_uri a generation request carries *)
UriOfRequest(req) == req.requestBody.contents[1].parts[2].file_uri

(* C11: in a sequence of runs, over the same file or different files, the  *)
(* file_uri of a run's generation request is the uri the run's own upload  *)
(* returned: whenever an earlier run's upload returned another uri, the    *)
(* request does not carry that one.                                        *)
C11_OwnUploadUri ==
    \A j \in 1..Len(invs) :
        \A k \in 1..Len(invs[j].genCalls) :
            /\ k <= Len(invs[j].uploadReplies)
            /\ invs[j].uploadReplies[k].data.file # <<>>
            /\ UriOfRequest(invs[j].genCalls[k]) = UriOfReply(invs[j].uploadReplies[k])
            /\ \A i \in 1..(j - 1) :
                   \A r \in 1..Len(invs[i].uploadReplies) :
                       UriOfReply(invs[i].uploadReplies[r]) #
                           UriOfReply(invs[j].uploadReplies[k])
                       => UriOfRequest(invs[j].genCalls[k]) #
                              UriOfReply(invs[i].uploadReplies[r])

C11_Witness ==
    /\ Len(invs) = 2
    /\ invs[1].pc = "done"
    /\ invs[2].filePath = invs[1].filePath
    /\ UriOfReply(invs[1].uploadReplies[1]) =
           "https://generativelanguage.googleapis.com/v1beta/files/abc123"
    /\ invs[2].genCalls # <<>>
    /\ UriOfRequest(invs[2].genCalls[1]) =
           "https://generativelanguage.googleapis.com/v1/files/xyz789"

(* C12: when invocations of the workflow run concurrently in one process, *)
(* sharing the credential and the client library, then under every         *)
(* interleaving of their awaits each invocation opens one stream, over its *)
(* own file, its upload carries that stream, the MIME type of its own file *)
(* and its own display name, its generation request carries the uri its    *)
(* own upload returned, and every request is authorized with the shared    *)
(* credential, which stays what it was when the invocation read it.        *)
C12_ConcurrentInvocationsApart ==
    \A i \in 1..Len(invs) :
        /\ invs[i].key = env
        /\ \A k \in 1..Len(invs[i].openCalls) :
               k = 1 /\ invs[i].openCalls[k] = invs[i].filePath
        /\ \A k \in 1..Len(invs[i].uploadCalls) :
               /\ k = 1
               /\ invs[i].uploadCalls[k].media.body = invs[i].filePath
               /\ invs[i].uploadCalls[k].media.mimeType = MimeTable[ExtName(invs[i].filePath)]
               /\ invs[i].uploadCalls[k].requestBody.file.displayName = invs[i].displayName
               /\ invs[i].uploadCalls[k].auth = [apiKey |-> env]
        /\ \A k \in 1..Len(invs[i].genCalls) :
               /\ k = 1
               /\ Len(invs[i].uploadReplies) = 1
               /\ UriOfRequest(invs[i].genCalls[k]) = UriOfReply(invs[i].uploadReplies[1])
               /\ invs[i].genCalls[k].auth = [apiKey |-> env]

C12_Witness ==
    /\ Len(invs) = 2
    /\ invs[1].pc = "awaitGenerate"
    /\ invs[2].pc = "awaitGenerate"
    /\ invs[1].filePath # invs[2].filePath
    /\ invs[1].displayName # invs[2].displayName
    /\ invs[1].uploadCalls[1].media.body # invs[2].uploadCalls[1].media.body
    /\ UriOfRequest(invs[1].genCalls[1]) # UriOfRequest(invs[2].genCalls[1])
    /\ UriOfRequest(invs[1].genCalls[1]) =
           "https://generativelanguage.googleapis.com/v1/files/xyz789"

(* C13: when the client initialization fails, the discovery call         *)
(* rejecting or the building of the API-key auth throwing, the run ends    *)
(* there: no read stream is opened, neither the upload nor the generation  *)
(* is called, nothing is logged, and the error reaches the caller of run.  *)
C13_ClientInitFailureAborts ==
    \A i \in FaultsIn("discover") \cup FaultsIn("auth") :
        /\ run.pc = "failed"
        /\ run.err = run.faults[i].error
        /\ run.openCalls = <<>>
        /\ run.stream = "none"
        /\ run.uploadCalls = <<>>
        /\ run.genCalls = <<>>
        /\ run.console = <<>>

C13_Witness ==
    /\ run.pc = "failed"
    /\ FaultsIn("auth") # {}
    /\ run.authCalls = <<"test-api-key-12345">>
    /\ run.err = "Invalid API key"

RemoteCalls(s) ==
    SelectSeq(s.trace, LAMBDA c : c \in {"discover", "upload", "generate", "delete"})

(* the files the remote store holds of an invocation: the file objects its *)
(* uploads were answered with, unless it has called delete since           *)
StoredFiles(s) ==
    IF \E k \in 1..Len(s.trace) : s.trace[k] = "delete" THEN {}
    ELSE {s.uploadReplies[k].data.file[1] :
              k \in {n \in 1..Len(s.uploadReplies) : s.uploadReplies[n].data.file # <<>>}}

(* C15: when the generation call fails after a successful upload, the run  *)
(* ends with the generation call as its last remote call: no delete or     *)
(* other cleanup call follows, and the uploaded file is still in the       *)
(* remote store when the run has ended.                                    *)
C15_NoCleanupAfterGenerateFailure ==
    \A i \in FaultsIn("generate") :
        /\ run.pc = "failed"
        /\ RemoteCalls(run) = <<"discover", "upload", "generate">>
        /\ run.trace[Len(run.trace)] = "generate"
        /\ StoredFiles(run) = {run.uploadReplies[1].data.file[1]}

C15_Witness ==
    /\ run.pc = "failed"
    /\ FaultsIn("generate") # {}
    /\ run.err = "Generation failed"
    /\ run.uploadReplies[1].data.file[1].uri =
           "https://generativelanguage.googleapis.com/v1beta/files/abc123"

(* C16: the one upload request of a run carries a stream over the file    *)
(* path run was called with, the MIME type looked up for that same path    *)
(* (image/png for a .png path, image/jpeg for a .jpg path), and the        *)
(* request body {file: {displayName}} with the display name run was called *)
(* with, unchanged, the empty string included.                             *)
C16_UploadRequestContent ==
    /\ Len(run.uploadCalls) <= 1
    /\ \A k \in 1..Len(run.uploadCalls) :
           LET req == run.uploadCalls[k]
           IN  /\ DOMAIN req = {"media", "auth", "requestBody"}
               /\ req.media.body = run.filePath
               /\ run.openCalls = <<run.filePath>>
               /\ run.lookupCalls = <<run.filePath>>
               /\ req.media.mimeType = MimeLookup(run.filePath)
               /\ ExtName(run.filePath) = "png" => req.media.mimeType = "image/png"
               /\ ExtName(run.filePath) = "jpg" => req.media.mimeType = "image/jpeg"
               /\ req.requestBody = [file |-> [displayName |-> run.displayName]]

C16_Witness ==
    /\ Len(run.uploadCalls) = 1
    /\ run.displayName = ""
    /\ run.filePath = <<"sample_data", "/", "gemini_logo", ".", "jpg">>
    /\ run.uploadCalls[1].requestBody.file.displayName = ""

(* the calls and log lines of a complete run, in their order *)
PhaseOrder == <<"discover", "auth", "lookup", "open", "upload", "log", "generate", "log">>

IsPrefix(a, b) == Len(a) <= Len(b) /\ a = SubSeq(b, 1, Len(a))

(* C17: the phases of a run occur in one order: the credential is resolved *)
(* first (without it nothing else happens), then discovery, the API-key    *)
(* auth, the MIME lookup and the opening of the read stream, the upload,   *)
(* the "Uploaded file" line, the generation, the response line.  What a    *)
(* run has done is always an initial part of this order; it is the whole   *)
(* order exactly when the run has succeeded; a run that awaits a call has  *)
(* that call as its last step, and a run in which a phase failed has       *)
(* stopped at that phase.                                                  *)
C17_FixedPhaseOrder ==
    /\ IsPrefix(run.trace, PhaseOrder)
    /\ run.pc = "done" <=> run.trace = PhaseOrder
    /\ run.trace # <<>> => run.key = env /\ run.key \notin {Undefined, ""}
    /\ run.pc = "awaitDiscover" => run.trace = SubSeq(PhaseOrder, 1, 1)
    /\ run.pc = "awaitUpload" => run.trace = SubSeq(PhaseOrder, 1, 5)
    /\ run.pc = "awaitGenerate" => run.trace = SubSeq(PhaseOrder, 1, 7)
    /\ \A i \in 1..Len(run.faults) :
           /\ run.pc = "failed"
           /\ run.trace # <<>>
           /\ run.trace[Len(run.trace)] = run.faults[i].phase
    /\ Len(run.console) = Cardinality({k \in 1..Len(run.trace) : run.trace[k] = "log"})

C17_Witness ==
    /\ run.pc = "done"
    /\ run.trace = <<"discover", "auth", "lookup", "open", "upload", "log", "generate", "log">>
    /\ Len(run.console) = 2

(* C18: the auth is built once in a run, by fromAPIKey called with the    *)
(* value of GOOGLE_API_KEY, and the upload call and the generation call    *)
(* are both given that auth.                                               *)
C18_OneAuthForBothCalls ==
    /\ Len(run.authCalls) <= 1
    /\ \A k \in 1..Len(run.authCalls) : run.authCalls[k] = env
    /\ \A k \in 1..Len(run.uploadCalls) :
           /\ run.authCalls = <<env>>
           /\ run.uploadCalls[k].auth = [apiKey |-> env]
    /\ \A k \in 1..Len(run.genCalls) :
           /\ run.authCalls = <<env>>
           /\ run.genCalls[k].auth = run.uploadCalls[1].auth

C18_Witness ==
    /\ run.pc = "done"
    /\ run.authCalls = <<"test-api-key-12345">>
    /\ run.uploadCalls[1].auth = [apiKey |-> "test-api-key-12345"]
    /\ run.genCalls[1].auth = [apiKey |-> "test-api-key-12345"]

(* C19: provided every remote call that was issued returns in the end, a  *)
(* run that was called reaches a terminal state, success or failure; and   *)
(* the passing of time alone never moves a run: it has no timeout and      *)
(* cancels nothing, so it stays at a call for as long as that call has not *)
(* returned.                                                               *)
C19_EndsIfCallsReturn ==
    /\ (run.pc # "idle") ~> Terminal
    /\ [][clock' # clock => Awaiting(run) /\ run' = run]_vars

C19_Witness ==
    /\ run.pc = "done"
    /\ clock > 0
    /\ run.genReplies # <<>>

(* C20: the answer of the upload is not validated before the generation  *)
(* request is built: after an answer whose file object has the empty       *)
(* string as uri the generation is still called, once, with file_uri the   *)
(* empty string, and the run fails only if that call does.                 *)
C20_EmptyUriReachesGenerate ==
    \A k \in 1..Len(run.uploadReplies) :
        LET file == run.uploadReplies[k].data.file
        IN  (file # <<>> /\ file[1].uri = "") =>
                /\ Len(run.genCalls) = 1
                /\ run.genCalls[1].requestBody.contents[1].parts[2].key = "file_data"
                /\ run.genCalls[1].requestBody.contents[1].parts[2].file_uri = ""
                /\ run.console[1] = <<"Uploaded file: ", "">>
                /\ run.pc = "failed" => FaultsIn("generate") # {}

C20_Witness ==
    /\ run.pc = "done"
    /\ run.uploadReplies[1].data.file # <<>>
    /\ run.uploadReplies[1].data.file[1].uri = ""
    /\ run.genCalls[1].requestBody.contents[1].parts[2].file_uri = ""

(* what an invocation has done to the local file system, in order: the    *)
(* steps of its trace that are neither remote calls nor console lines nor  *)
(* computations in memory (the building of the auth, the MIME lookup)      *)
FileSystemSteps(s) ==
    SelectSeq(s.trace,
              LAMBDA c : c \notin {"discover", "upload", "generate", "delete",
                                   "log", "auth", "lookup"})

(* C21: in every run, whatever its outcome, nothing is written or kept     *)
(* locally: the steps of the run are the opening of the input file for     *)
(* reading (at most once, the path run was called with), remote calls and  *)
(* console lines, the auth and the MIME lookup being computed in memory.   *)
C21_NothingPersistedLocally ==
    /\ \A k \in 1..Len(FileSystemSteps(run)) : FileSystemSteps(run)[k] = "open"
    /\ Len(FileSystemSteps(run)) = Len(run.openCalls)
    /\ Len(run.openCalls) <= 1
    /\ \A k \in 1..Len(run.openCalls) : run.openCalls[k] = run.filePath
    /\ Len(RemoteCalls(run)) =
           Len(run.discoverCalls) + Len(run.uploadCalls) + Len(run.genCalls)
    /\ Len(run.console) = Cardinality({k \in 1..Len(run.trace) : run.trace[k] = "log"})

C21_Witness ==
    /\ run.pc = "done"
    /\ FileSystemSteps(run) = <<"open">>
    /\ Len(run.console) = 2
    /\ Len(RemoteCalls(run)) = 3

C23_NotebookRunnerRunsAll ==
    /\ \A k \in 1..Len(sh.ran) :
           sh.ran[k].suite = <<"test_notebook_api_migration",
                               "test_notebook_content_quality",
                               "test_notebook_integration">>[k]
    /\ Len(sh.ran) < 3 => sh.exit = <<>> /\ sh.pc \in {"idle", "suites"}
    /\ sh.exit # <<>> =>
           /\ Len(sh.ran) = 3
           /\ sh.exit \in {<<0>>, <<1>>}
           /\ sh.exit = <<0>> <=> \A k \in 1..3 : sh.ran[k].status = 0

C23_Witness ==
    /\ sh.exit = <<1>>
    /\ Len(sh.ran) = 3
    /\ sh.ran[1].status = 1
    /\ sh.ran[2].status = 0
    /\ sh.ran[3].status = 0

(* the statuses with which a command was run *)
StatusesOf(command) ==
    {sh.ran[k].status : k \in {n \in 1..Len(sh.ran) : sh.ran[n].suite = command}}

Echoed(line) == \E k \in 1..Len(sh.out) : sh.out[k] = line

(* C24: run_tests.sh stops at the first failing suite: when pytest fails   *)
(* neither npm install nor npm test is ever started and the script exits   *)
(* with status 1, when npm test fails the script exits with status 1, and  *)
(* the line "All tests passed successfully!" is echoed only when every     *)
(* suite that was run ended with status 0.                                 *)
C24_MasterStopsAtFirstFailure ==
    /\ StatusesOf("pytest") \ {0} # {} =>
           /\ sh.exit = <<1>>
           /\ StatusesOf("npm install") = {}
           /\ StatusesOf("npm test") = {}
           /\ sh.ran[Len(sh.ran)].suite = "pytest"
    /\ StatusesOf("npm test") \ {0} # {} =>
           /\ sh.exit = <<1>>
           /\ sh.ran[Len(sh.ran)].suite = "npm test"
    /\ Echoed("All tests passed successfully!") =>
           /\ StatusesOf("pytest") \subseteq {0}
           /\ StatusesOf("npm test") \subseteq {0}
           /\ sh.exit = <<0>>

C24_Witness ==
    /\ sh.dirs = {"tests", "quickstarts/file-api/__tests__"}
    /\ sh.exit = <<1>>
    /\ StatusesOf("pytest") = {1}
    /\ StatusesOf("npm test") = {}
    /\ ~Echoed("All tests passed successfully!")

(* C28: when neither tests nor quickstarts/file-api/__tests__ exists,     *)
(* run_tests.sh runs no command at all, and still echoes "All tests passed *)
(* successfully!" and exits with status 0.                                 *)
C28_MasterSucceedsWithoutSuites ==
    sh.dirs = {} =>
        /\ sh.ran = <<>>
        /\ sh.pc = "exited" =>
               /\ sh.exit = <<0>>
               /\ sh.out = <<"  Gemini Cookbook Test Suite Runner  ",
                             "All tests passed successfully!">>

C28_Witness ==
    /\ sh.script = "run_tests.sh"
    /\ sh.dirs = {}
    /\ sh.pc = "exited"
    /\ sh.exit = <<0>>
    /\ sh.ran = <<>>

(* C25: when the upload call rejects, the run has logged nothing and logs *)
(* nothing: neither the "Uploaded file: " line nor the response line.      *)
C25_UploadRejectLogsNothing ==
    \A i \in FaultsIn("upload") :
        /\ run.pc = "failed"
        /\ run.console = <<>>
        /\ \A k \in 1..Len(run.trace) : run.trace[k] # "log"

C25_Witness ==
    /\ run.pc = "failed"
    /\ FaultsIn("upload") # {}
    /\ run.err = "Network timeout"
    /\ run.console = <<>>

(* the places of a step in the trace of the run *)
PlacesOf(step) == {k \in 1..Len(run.trace) : run.trace[k] = step}

(* C26: when the generation call rejects after a successful upload, the    *)
(* console of the run holds exactly one line, "Uploaded file: " followed   *)
(* by the uri of the upload's answer; the line was logged before the       *)
(* generation call was issued and is still there after the failure.        *)
C26_OneLineBeforeGenerate ==
    \A i \in FaultsIn("generate") :
        /\ run.pc = "failed"
        /\ run.uploadReplies # <<>>
        /\ run.console =
               << <<"Uploaded file: ", JsString(UriOfReply(run.uploadReplies[1]))>> >>
        /\ Cardinality(PlacesOf("log")) = 1
        /\ Cardinality(PlacesOf("generate")) = 1
        /\ \A l \in PlacesOf("log") : \A g \in PlacesOf("generate") : l < g

C26_Witness ==
    /\ run.pc = "failed"
    /\ FaultsIn("generate") # {}
    /\ run.console =
           << <<"Uploaded file: ",
                "https://generativelanguage.googleapis.com/v1beta/files/abc123">> >>
    /\ run.trace[Len(run.trace)] = "generate"

(* C27: after an upload answer whose file object has a uri and no         *)
(* mimeType the generation is still called, once, with that uri and with   *)
(* no mime_type: the type that was inferred locally for the upload is not  *)
(* put in its place.                                                       *)
C27_MissingMimeTypeNotReplaced ==
    \A k \in 1..Len(run.uploadReplies) :
        LET file == run.uploadReplies[k].data.file
        IN  (file # <<>> /\ file[1].uri # Undefined /\ file[1].mimeType = Undefined) =>
                /\ Len(run.genCalls) = 1
                /\ LET part == run.genCalls[1].requestBody.contents[1].parts[2]
                   IN  /\ part.key = "file_data"
                       /\ part.file_uri = file[1].uri
                       /\ part.mime_type = Undefined
                       /\ run.uploadCalls[1].media.mimeType # Undefined
                       /\ part.mime_type # run.uploadCalls[1].media.mimeType

C27_Witness ==
    /\ run.genCalls # <<>>
    /\ run.uploadCalls[1].media.mimeType = "image/png"
    /\ run.uploadReplies[1].data.file # <<>>
    /\ run.uploadReplies[1].data.file[1].mimeType = Undefined
    /\ run.uploadReplies[1].data.file[1].uri =
           "https://generativelanguage.googleapis.com/v1beta/files/abc123"

====
